---------------------------- MODULE Spec2Model ----------------------------
(***************************************************************************)
(* A model of git-dx: the `integrate` engine of src/main.rs, the commit    *)
(* cache of src/git.rs and the trailer lookup of src/main.rs.              *)
(*                                                                         *)
(* The git backend is modelled by what the commands the program runs do:   *)
(* an object store of commits, the remote-tracking refs, the checked-out   *)
(* HEAD and a pending MERGE_HEAD.  It is assumed that the `git` executable *)
(* can be invoked (no IoError) and that `interpret-trailers --parse` emits *)
(* one "key: value" line per trailer.                                      *)
(***************************************************************************)
EXTENDS Integers, Sequences, FiniteSets, TLC

(***************************************************************************)
(* Program constants (src/main.rs:7-9) and bounds of the model.            *)
(***************************************************************************)
BRANCH_DIRECTIVE == "wchargin-branch"
SOURCE_DIRECTIVE == "wchargin-source"
BRANCH_PREFIX == "wchargin-"

\* Option::None, for object ids, branch names and messages.
None == "none"

\* Longest trailer list the lookup specification draws.
MaxLen == 3
\* Most further matches folded into a finished lookup.
MaxExtra == 2
\* Most invocations of the command in the re-run specification.
MaxRuns == 2

(***************************************************************************)
(* Trailer Engine: TrailerMatch and look_up_trailer.                       *)
(***************************************************************************)
Missing(key) == [kind |-> "Missing", key |-> key]
Duplicate(key) == [kind |-> "Duplicate", key |-> key]
Unique(key, value) == [kind |-> "Unique", key |-> key, value |-> value]

plus_sticky_unique(self, value) ==
  CASE self.kind = "Missing" -> Unique(self.key, value)
    [] self.kind = "Unique" -> Unique(self.key, value)
    [] OTHER -> self

\* TrailerMatch::plus
plus(self, value) ==
  CASE self.kind = "Missing" -> Unique(self.key, value)
    [] self.kind = "Unique" -> Duplicate(self.key)
    [] OTHER -> self

\* TrailerMatch::is_duplicate
is_duplicate(self) == self.kind = "Duplicate"

\* The for loop of look_up_trailer from index i on, with its early return.
RECURSIVE look_up_from(_, _, _, _)
look_up_from(key, list, i, found) ==
  IF i > Len(list) \/ is_duplicate(found) THEN found
  ELSE look_up_from(key, list, i + 1,
                    IF list[i][1] = key THEN plus(found, list[i][2]) ELSE found)

\* look_up_trailer
look_up_trailer(key, list) == look_up_from(key, list, 1, Missing(key))

\* err::Error values: every error carries the same three fields.
NoError == [kind |-> "none", oid |-> "", key |-> ""]
MissingTrailer(oid, key) == [kind |-> "MissingTrailer", oid |-> oid, key |-> key]
DuplicateTrailer(oid, key) == [kind |-> "DuplicateTrailer", oid |-> oid, key |-> key]
NoSuchCommit(rev) == [kind |-> "NoSuchCommit", oid |-> rev, key |-> ""]
GitContract(what) == [kind |-> "GitContract", oid |-> "", key |-> what]

Ok(v) == [ok |-> TRUE, val |-> v, err |-> NoError]
Err(e) == [ok |-> FALSE, val |-> None, err |-> e]

unique_swapped(self, oid) ==
  CASE self.kind = "Unique" -> Ok(self.value)
    [] self.kind = "Missing" -> Err(DuplicateTrailer(oid, self.key))
    [] OTHER -> Err(MissingTrailer(oid, self.key))

\* TrailerMatch::unique
unique(self, oid) ==
  CASE self.kind = "Unique" -> Ok(self.value)
    [] self.kind = "Missing" -> Err(MissingTrailer(oid, self.key))
    [] OTHER -> Err(DuplicateTrailer(oid, self.key))


(***************************************************************************)
(* Commit messages.  A message is its text before the trailer block (body), *)
(* the lines `git interpret-trailers --parse` emits for it (trailers) and  *)
(* the comment lines after the trailer block (rest).                       *)
(***************************************************************************)
Message(body, lines) == [body |-> body, trailers |-> lines, rest |-> ""]

Min(S) == CHOOSE x \in S : \A y \in S : x <= y

\* Index of the first ": " of a line, 0 when there is none.
MinOr0(hits) == IF hits = {} THEN 0 ELSE Min(hits)

SepIndex(line) ==
  MinOr0({i \in 1..(Len(line) - 1) : SubSeq(line, i, i + 1) = ": "})

\* line.splitn(2, ": ") with the separator at index i
split_at(line, i) ==
  IF i = 0 THEN <<line>>
  ELSE <<SubSeq(line, 1, i - 1), SubSeq(line, i + 2, Len(line))>>

\* line.splitn(2, ": ")
splitn2(line) == split_at(line, SepIndex(line))

\* trailers() over the lines interpret-trailers emitted, already split.
trailers_of(parts) ==
  IF \E i \in 1..Len(parts) : Len(parts[i]) # 2
  THEN Err(GitContract("interpret-trailers emitted line"))
  ELSE Ok(parts)

\* trailers(): the (key, value) pairs of a message, in order.
trailers(message) ==
  trailers_of([i \in 1..Len(message.trailers) |-> splitn2(message.trailers[i])])

branch_name_arms_lenient(v) ==
  IF v.ok THEN Ok(BRANCH_PREFIX \o v.val) ELSE Ok(None)

\* branch_name(): the match arms over unique()'s result.
branch_name_arms(v) ==
  IF v.ok THEN Ok(BRANCH_PREFIX \o v.val)
  ELSE IF v.err.kind = "MissingTrailer" THEN Ok(None)
  ELSE v

\* branch_name() once the trailers are extracted.
branch_name_of(oid, all_trailers) ==
  IF ~all_trailers.ok THEN all_trailers
  ELSE branch_name_arms(unique(look_up_trailer(BRANCH_DIRECTIVE, all_trailers.val), oid))

\* branch_name(): Ok(Some(prefix + value)), Ok(None) when the trailer is
\* missing, Err(DuplicateTrailer) when it is given twice.
branch_name(oid, message) == branch_name_of(oid, trailers(message))

\* format!("{}: {}", key, value)
TrailerLine(key, value) == key \o ": " \o value

\* The key of a trailer line of a message.
LineKey(line) == splitn2(line)[1]

\* `--if-exists replace --where end --trailer line`: the last trailer with the
\* key of `line` is removed and `line` is added at the end; earlier trailers
\* with that key stay.
Max(S) == CHOOSE x \in S : \A y \in S : y <= x

\* lines without its k-th element
RemoveAt(lines, k) ==
  [i \in 1..(Len(lines) - 1) |-> IF i < k THEN lines[i] ELSE lines[i + 1]]

ReplaceAmong(lines, line, same) ==
  IF same = {} THEN Append(lines, line) ELSE Append(RemoveAt(lines, Max(same)), line)

\* The lower-case form of each upper-case letter.
LowerOf ==
  [ch \in {"A", "B", "C", "D", "E", "F", "G", "H", "I", "J", "K", "L", "M",
           "N", "O", "P", "Q", "R", "S", "T", "U", "V", "W", "X", "Y", "Z"} |->
     CASE ch = "A" -> "a" [] ch = "B" -> "b" [] ch = "C" -> "c"
       [] ch = "D" -> "d" [] ch = "E" -> "e" [] ch = "F" -> "f"
       [] ch = "G" -> "g" [] ch = "H" -> "h" [] ch = "I" -> "i"
       [] ch = "J" -> "j" [] ch = "K" -> "k" [] ch = "L" -> "l"
       [] ch = "M" -> "m" [] ch = "N" -> "n" [] ch = "O" -> "o"
       [] ch = "P" -> "p" [] ch = "Q" -> "q" [] ch = "R" -> "r"
       [] ch = "S" -> "s" [] ch = "T" -> "t" [] ch = "U" -> "u"
       [] ch = "V" -> "v" [] ch = "W" -> "w" [] ch = "X" -> "x"
       [] ch = "Y" -> "y" [] ch = "Z" -> "z"]

lower_char(ch) == IF ch \in DOMAIN LowerOf THEN LowerOf[ch] ELSE ch

RECURSIVE Lower(_)
Lower(s) ==
  IF s = "" THEN ""
  ELSE lower_char(SubSeq(s, 1, 1)) \o Lower(SubSeq(s, 2, Len(s)))

\* The first n characters of two keys agree, whatever their case.
same_prefix(a, b, n) == SubSeq(Lower(a), 1, n) = SubSeq(Lower(b), 1, n)

\* git decides that a trailer of the message has the key of a --trailer
\* argument by comparing the two keys without regard to case over the
\* length of the shorter one.
same_token(a, b) == same_prefix(a, b, IF Len(a) < Len(b) THEN Len(a) ELSE Len(b))

ReplaceTrailer(lines, line) ==
  ReplaceAmong(lines, line,
               {i \in 1..Len(lines) : same_token(LineKey(lines[i]), LineKey(line))})

\* git interpret-trailers --if-exists replace --trailer a --trailer b
interpret_trailers(message, a, b) ==
  [message EXCEPT !.trailers = ReplaceTrailer(ReplaceTrailer(@, a), b)]

\* The message of a commit-tree whose standard input is empty.
EmptyMessage == Message("", <<>>)

\* git::parse_oid: the output without its final newline, or an error.
parse_oid(stdout) ==
  IF Len(stdout) > 0 /\ SubSeq(stdout, Len(stdout), Len(stdout)) = "\n"
  THEN Ok(SubSeq(stdout, 1, Len(stdout) - 1))
  ELSE Err(GitContract("bad output"))

(***************************************************************************)
(* State.  The first group is the repository the backend keeps, the second *)
(* the program: main's locals, the GitStore cache and integrate's locals.  *)
(***************************************************************************)
VARIABLES
  objects,          \* object store: oid -> [parents, tree, message]
  refs,             \* remote-tracking refs: name -> oid or None
  HEAD,             \* the checked-out commit
  MERGE_HEAD,       \* the commit being merged while conflicts are pending
  index,            \* the tree `git add .` stages while conflicts are pending
  created,          \* oids of the commits this program's commands created
  pc,               \* position in main / integrate
  args,             \* the parsed command line
  original_head,    \* main: original_head
  commits,          \* GitStore.commits
  source_commit,    \* main: source_commit
  allow_empty,      \* integrate's parameter allow_empty
  target_branch,
  remote_diffbase,
  merge_head,
  new_branch,
  base_commit,
  same_tree,
  msg,              \* Step 5's message before the trailer rewrite
  remote_commit,
  error,            \* the error main returns
  log,              \* commands run and lines printed, in order
  start,            \* the repository as the invocation found it
  runs,             \* earlier invocations: what each found and returned
  lk,               \* the trailer lookup under test
  io                \* the pipes and processes of Step 5's pipeline

repo == <<objects, refs, HEAD, MERGE_HEAD, index, created>>
locals == <<target_branch, remote_diffbase, merge_head, new_branch,
            base_commit, same_tree, msg, remote_commit>>
mainvars == <<args, original_head, source_commit, allow_empty>>
vars == <<repo, pc, mainvars, commits, locals, error, log, start, runs, lk, io>>

Commit(oid, o) ==
  [oid |-> oid, parents |-> o.parents, tree |-> o.tree, message |-> o.message]

NoCommit == [oid |-> None, parents |-> <<>>, tree |-> None, message |-> EmptyMessage]
NoMessage == Message(None, <<>>)

\* The pipeline of Step 5 before it is spawned.  Pipes are byte counts:
\* a = the parent's pipe to interpret-trailers' stdin, b = interpret-trailers'
\* stdout to commit-tree's stdin, c = commit-tree's stdout to the parent,
\* e = interpret-trailers' stderr to the parent.
NoPipes ==
  [cap |-> 0, msg |-> 0, len |-> 0, err |-> 0,
   a |-> 0, a_closed |-> FALSE, b |-> 0, b_closed |-> FALSE,
   c |-> 0, c_closed |-> FALSE, e |-> 0,
   parent |-> "none", it |-> "none", ct |-> "none",
   it_in |-> 0, it_out |-> 0, ct_in |-> 0, ct_out |-> 0, got |-> 0]

NoLookup ==
  [key |-> None, trailers |-> <<>>, done |-> FALSE, first |-> Missing(None),
   result |-> Missing(None), extra |-> 0]

(***************************************************************************)
(* The backend's revision syntax, as far as the program uses it: HEAD, a   *)
(* remote-tracking ref, a full object id, REV~ and REV^{commit}.  Every    *)
(* object of the store is a commit.                                        *)
(***************************************************************************)
EndsWith(s, suffix) ==
  /\ Len(s) > Len(suffix)
  /\ SubSeq(s, Len(s) - Len(suffix) + 1, Len(s)) = suffix

DropSuffix(s, suffix) == SubSeq(s, 1, Len(s) - Len(suffix))

\* REV~: the first parent of commit r, if it has one.
FirstParent(r) ==
  IF r = None THEN None
  ELSE IF objects[r].parents = <<>> THEN None
  ELSE objects[r].parents[1]

RECURSIVE Resolve(_)
Resolve(rev) ==
  IF rev = "HEAD" THEN HEAD
  ELSE IF rev \in DOMAIN objects THEN rev
  ELSE IF rev \in DOMAIN refs THEN refs[rev]
  ELSE IF EndsWith(rev, "^{commit}") THEN Resolve(DropSuffix(rev, "^{commit}"))
  ELSE IF EndsWith(rev, "~") THEN FirstParent(Resolve(DropSuffix(rev, "~")))
  ELSE None

\* rev_parse on what the backend resolved: its output, parsed.
rev_parse_of(r) == IF r = None THEN Ok(None) ELSE parse_oid(r \o "\n")

\* GitStore::rev_parse: `git rev-parse --verify rev`
rev_parse(rev) == rev_parse_of(Resolve(rev))

rev_parse_commit_of(r) ==
  IF ~r.ok THEN r
  ELSE IF r.val = None THEN r
  ELSE rev_parse(r.val \o "^{commit}")

\* GitStore::rev_parse_commit
rev_parse_commit(rev) == rev_parse_commit_of(rev_parse(rev))

rev_parse_commit_ok_of(rev, r) ==
  IF r.ok /\ r.val = None THEN Err(NoSuchCommit(rev)) ELSE r

\* GitStore::rev_parse_commit_ok
rev_parse_commit_ok(rev) == rev_parse_commit_ok_of(rev, rev_parse_commit(rev))

\* read_commit after `git show` printed the commit output_hash.
read_commit_shown(hash, output_hash, again) ==
  IF ~again.ok THEN again
  ELSE IF again.val # output_hash THEN Err(NoSuchCommit(hash))
  ELSE IF hash # output_hash /\ hash \in DOMAIN commits
       THEN Ok([cached |-> TRUE, oid |-> output_hash, commit |-> NoCommit])
  ELSE Ok([cached |-> FALSE, oid |-> output_hash,
           commit |-> Commit(output_hash, objects[output_hash])])

read_commit_of_contract(hash, output_hash) ==
  IF output_hash = None THEN Err(GitContract("git show failed"))
  ELSE read_commit_shown(hash, output_hash, rev_parse_commit_ok(output_hash))

\* read_commit: `git show` failed, or it printed the commit output_hash.
read_commit_of(hash, output_hash) ==
  IF output_hash = None THEN Err(NoSuchCommit(hash))
  ELSE read_commit_shown(hash, output_hash, rev_parse_commit_ok(output_hash))

\* GitStore::read_commit: Err, or Ok of [cached, oid, commit].
read_commit(hash) == read_commit_of(hash, Resolve(hash))

Panic(what) == [kind |-> "Panic", oid |-> "", key |-> what]

entry_key_by_tree(c) == c.tree

\* self.commits.entry(commit.oid.clone())
entry_key(c) == c.oid

\* GitStore::commit after read_commit returned r.
commit_read(r) ==
  IF ~r.ok THEN [res |-> r, cache |-> commits]
  ELSE IF r.val.cached
       THEN IF r.val.oid \in DOMAIN commits
            THEN [res |-> Ok(commits[r.val.oid]), cache |-> commits]
            ELSE [res |-> Err(Panic("allegedly cached commit not in map")),
                  cache |-> commits]
  ELSE IF entry_key(r.val.commit) \in DOMAIN commits
       THEN IF r.val.commit = commits[entry_key(r.val.commit)]
            THEN [res |-> Ok(commits[entry_key(r.val.commit)]), cache |-> commits]
            ELSE [res |-> Err(Panic("assert_eq")), cache |-> commits]
  ELSE [res |-> Ok(r.val.commit),
        cache |-> (entry_key(r.val.commit) :> r.val.commit) @@ commits]

commit_read_by_alias(hash, r) ==
  IF ~r.ok THEN [res |-> r, cache |-> commits]
  ELSE [res |-> Ok(r.val.commit), cache |-> (hash :> r.val.commit) @@ commits]

commit_by_alias(hash) ==
  IF hash \in DOMAIN commits
  THEN [res |-> Ok(commits[hash]), cache |-> commits]
  ELSE commit_read_by_alias(hash, read_commit(hash))

\* GitStore::commit: the result, and the cache it leaves.
commit(hash) ==
  IF hash \in DOMAIN commits
  THEN [res |-> Ok(commits[hash]), cache |-> commits]
  ELSE commit_read(read_commit(hash))

\* remote_branch_oid
remote_branch_oid(remote, branch) ==
  rev_parse("refs/remotes/" \o remote \o "/" \o branch)

\* The commits reachable from oid, oid included.
RECURSIVE Ancestors(_, _)
Ancestors(objs, oid) ==
  {oid} \cup UNION {Ancestors(objs, objs[oid].parents[i]) :
                      i \in 1..Len(objs[oid].parents)}

IsAncestor(objs, a, b) == a \in Ancestors(objs, b)

\* The id of a new commit object: a fresh one, or that of an equal commit
\* this program created before (same content within the same second).
NewOids(c) ==
  {"c" \o ToString(Cardinality(DOMAIN objects) + 1)}
    \cup {o \in created : objects[o] = c}

Store(oid, c) == (oid :> c) @@ objects

Logged(op, arg, ok) == Append(log, [op |-> op, arg |-> arg, ok |-> ok])

(***************************************************************************)
(* main and integrate, one action per step.                                *)
(***************************************************************************)
Fail(e) == pc' = "failed" /\ error' = e

\* GitStore::head (not among the sources): the id of the checked-out commit.
head == HEAD

allow_empty_as_given(allow, bump) == allow

\* if bump { allow_empty = true; }
allow_empty_of(allow, bump) == allow \/ bump

\* main up to the call of integrate: head(), the flags, git.commit(COMMIT).
MainStart ==
  /\ pc = "start"
  /\ original_head' = head
  /\ allow_empty' = allow_empty_of(args.allow_empty, args.bump)
  /\ \E r \in {commit(args.commit)} :
       /\ commits' = r.cache
       /\ IF r.res.ok
          THEN source_commit' = r.res.val /\ pc' = "step0" /\ UNCHANGED error
          ELSE Fail(r.res.err) /\ UNCHANGED source_commit
  /\ UNCHANGED <<repo, args, locals, log, start, runs, lk, io>>

unprefixed_kept(branch) == branch

\* &target_branch[BRANCH_PREFIX.len()..]
unprefixed(branch) == SubSeq(branch, Len(BRANCH_PREFIX) + 1, Len(branch))

\* Step 0: the target branch of the source commit.
Step0 ==
  /\ pc = "step0"
  /\ \E b \in {branch_name(source_commit.oid, source_commit.message)} :
       IF ~b.ok THEN Fail(b.err) /\ UNCHANGED target_branch
       ELSE IF b.val = None
            THEN /\ Fail(MissingTrailer(source_commit.oid, BRANCH_DIRECTIVE))
                 /\ UNCHANGED target_branch
       ELSE target_branch' = b.val /\ pc' = "step1" /\ UNCHANGED error
  /\ UNCHANGED <<repo, mainvars, commits, remote_diffbase, merge_head, new_branch,
                 base_commit, same_tree, msg, remote_commit, log, start, runs, lk, io>>

diffbase_ignores_remote(parent, tip) == parent

\* unwrap_or_else: the remote tip of the parent's branch, else the parent.
diffbase_of(parent, tip) == IF tip = None THEN parent ELSE tip

\* Step 1: the remote diffbase.
Step1 ==
  /\ pc = "step1"
  /\ \E r \in {commit(source_commit.oid \o "~^{commit}")} :
       /\ commits' = r.cache
       /\ IF ~r.res.ok THEN Fail(r.res.err) /\ UNCHANGED remote_diffbase
          ELSE \E name \in {branch_name(r.res.val.oid, r.res.val.message)} :
                 IF ~name.ok THEN Fail(name.err) /\ UNCHANGED remote_diffbase
                 ELSE \E tip \in {IF name.val = None THEN Ok(None)
                                  ELSE remote_branch_oid(args.remote, name.val)} :
                        IF ~tip.ok THEN Fail(tip.err) /\ UNCHANGED remote_diffbase
                        ELSE /\ remote_diffbase' = diffbase_of(r.res.val.oid, tip.val)
                             /\ pc' = "step2"
                             /\ UNCHANGED error
  /\ UNCHANGED <<repo, mainvars, target_branch, merge_head, new_branch,
                 base_commit, same_tree, msg, remote_commit, log, start, runs, lk, io>>

is_new_branch_inverted(tip) == tip # None

\* merge_head.is_none()
is_new_branch(tip) == tip = None

merge_head_always_diffbase(tip, diffbase) == diffbase

\* merge_head.unwrap_or_else(|| remote_diffbase.clone())
merge_head_of(tip, diffbase) == IF tip = None THEN diffbase ELSE tip

\* Step 2: the merge head, and whether the target branch is new.
Step2 ==
  /\ pc = "step2"
  /\ \E tip \in {remote_branch_oid(args.remote, target_branch)} :
       IF ~tip.ok THEN Fail(tip.err) /\ UNCHANGED <<merge_head, new_branch>>
       ELSE /\ new_branch' = is_new_branch(tip.val)
            /\ merge_head' = merge_head_of(tip.val, remote_diffbase)
            /\ pc' = "step3"
            /\ UNCHANGED error
  /\ UNCHANGED <<repo, mainvars, commits, target_branch, remote_diffbase,
                 base_commit, same_tree, msg, remote_commit, log, start, runs, lk, io>>

\* Whether a checkout can succeed: not while a merge is pending.
CheckoutOutcomes == IF MERGE_HEAD = None THEN BOOLEAN ELSE {FALSE}

\* Step 3: git checkout --detach merge_head.
Step3 ==
  /\ pc = "step3"
  /\ \E ok \in CheckoutOutcomes :
       /\ log' = Logged("checkout", merge_head, ok)
       /\ IF ok
          THEN HEAD' = merge_head /\ pc' = "step4" /\ UNCHANGED error
          ELSE Fail(GitContract("failed to check out")) /\ UNCHANGED HEAD
  /\ UNCHANGED <<objects, refs, MERGE_HEAD, index, created, mainvars, commits,
                 locals, start, runs, lk, io>>

\* The trees a merge of two different trees can leave: a clean result, or
\* the tree with conflict markers that `git add .` stages.
MergedTrees == {"t1", "t2", "tm"}
ConflictTree == "tx"

MergeOutcomes(ours, theirs) ==
  IF ours = theirs THEN {[clean |-> TRUE, tree |-> ours]}
  ELSE {[clean |-> TRUE, tree |-> t] : t \in MergedTrees}
         \cup {[clean |-> FALSE, tree |-> ConflictTree]}

\* The message of `git merge -m "[..: update diffbase]" -m "<trailers>"`.
merge_message ==
  Message("[" \o unprefixed(target_branch) \o ": update diffbase]\n",
          <<TrailerLine(BRANCH_DIRECTIVE, unprefixed(target_branch)),
            TrailerLine(SOURCE_DIRECTIVE, source_commit.oid)>>)

\* MERGE_MSG as `git commit --no-edit` records it after conflicts.
conflict_message == [merge_message EXCEPT !.rest = "# Conflicts:\n"]

after_merge_strict(success) == IF success THEN "step5" ELSE "failed"

\* if !out.status.success() { git add .; git commit }: where Step 4 goes on.
after_merge(success) == IF success THEN "step5" ELSE "stage"

\* Step 4: git merge remote_diffbase.  Already up to date, a fast-forward
\* (no commit is created, -m is ignored), a merge commit, or conflicts.
Step4 ==
  /\ pc = "step4"
  /\ IF IsAncestor(objects, remote_diffbase, HEAD)
     THEN /\ log' = Logged("merge", remote_diffbase, TRUE)
          /\ pc' = "step5"
          /\ UNCHANGED repo
     ELSE IF IsAncestor(objects, HEAD, remote_diffbase)
     THEN /\ log' = Logged("merge", remote_diffbase, TRUE)
          /\ HEAD' = remote_diffbase
          /\ pc' = "step5"
          /\ UNCHANGED <<objects, refs, MERGE_HEAD, index, created>>
     ELSE \E out \in MergeOutcomes(objects[HEAD].tree, objects[remote_diffbase].tree) :
            LET c == [parents |-> <<HEAD, remote_diffbase>>, tree |-> out.tree,
                      message |-> merge_message]
            IN  /\ log' = Logged("merge", remote_diffbase, out.clean)
                /\ IF out.clean
                   THEN \E oid \in NewOids(c) :
                          /\ objects' = Store(oid, c)
                          /\ created' = created \cup {oid}
                          /\ HEAD' = oid
                          /\ pc' = "step5"
                          /\ UNCHANGED <<refs, MERGE_HEAD, index>>
                   ELSE /\ MERGE_HEAD' = remote_diffbase
                        /\ index' = out.tree
                        /\ pc' = after_merge(out.clean)
                        /\ UNCHANGED <<objects, refs, HEAD, created>>
  /\ UNCHANGED <<mainvars, commits, locals, error, start, runs, lk, io>>

\* Step 4 after a failed merge: git add .
Step4Stage ==
  /\ pc = "stage"
  /\ \E ok \in BOOLEAN :
       /\ log' = Logged("add", ".", ok)
       /\ IF ok THEN pc' = "commit_merge" /\ UNCHANGED error
          ELSE Fail(GitContract("failed to stage"))
  /\ UNCHANGED <<repo, mainvars, commits, locals, start, runs, lk, io>>

\* Step 4 after a failed merge: git commit --no-edit --no-verify
Step4Commit ==
  /\ pc = "commit_merge"
  /\ \E ok \in BOOLEAN :
       /\ log' = Logged("commit", "--no-edit", ok)
       /\ IF ok
          THEN LET c == [parents |-> <<HEAD, MERGE_HEAD>>, tree |-> index,
                         message |-> conflict_message]
               IN  \E oid \in NewOids(c) :
                     /\ objects' = Store(oid, c)
                     /\ created' = created \cup {oid}
                     /\ HEAD' = oid
                     /\ MERGE_HEAD' = None
                     /\ index' = None
                     /\ pc' = "step5"
                     /\ UNCHANGED <<refs, error>>
          ELSE Fail(GitContract("failed to commit merge")) /\ UNCHANGED repo
  /\ UNCHANGED <<mainvars, commits, locals, start, runs, lk, io>>

\* format!("[{}: {}]\n", branch, what)
Bracket(branch, what) == Message("[" \o branch \o ": " \o what \o "]\n", <<>>)

\* format!("[{}: no-op] [ci skip]\n", branch)
NoOpText(branch) == Message("[" \o branch \o ": no-op] [ci skip]\n", <<>>)

patch_message_bump_first(new, same, bump, message, source_message, branch) ==
  IF same /\ bump THEN Bracket(branch, "bump ci")
  ELSE IF new THEN source_message
  ELSE IF same THEN NoOpText(branch)
  ELSE Bracket(branch, IF message = None THEN "update patch" ELSE message)

\* The message Step 5 chooses for the patch commit.
patch_message(new, same, bump, message, source_message, branch) ==
  IF new THEN source_message
  ELSE IF same /\ bump THEN Bracket(branch, "bump ci")
  ELSE IF same THEN NoOpText(branch)
  ELSE Bracket(branch, IF message = None THEN "update patch" ELSE message)

noop_needs_allow_empty(same, allow) == same /\ allow

\* same_tree && !allow_empty
is_noop(same, allow) == same /\ ~allow

\* Step 5: read HEAD, compare the trees, return the base or choose a message.
Step5 ==
  /\ pc = "step5"
  /\ \E r \in {commit("HEAD")} :
       /\ commits' = r.cache
       /\ IF ~r.res.ok
          THEN Fail(r.res.err) /\ UNCHANGED <<base_commit, same_tree, msg, remote_commit>>
          ELSE \E same \in {source_commit.tree = r.res.val.tree} :
                 /\ base_commit' = r.res.val
                 /\ same_tree' = same
                 /\ UNCHANGED error
                 /\ IF is_noop(same, allow_empty)
                    THEN remote_commit' = r.res.val.oid /\ pc' = "return" /\ UNCHANGED msg
                    ELSE /\ msg' = patch_message(new_branch, same, args.bump, args.message,
                                                 source_commit.message,
                                                 unprefixed(target_branch))
                         /\ pc' = "create"
                         /\ UNCHANGED remote_commit
  /\ UNCHANGED <<repo, mainvars, target_branch, remote_diffbase, merge_head,
                 new_branch, log, start, runs, lk, io>>

patch_parent_diffbase(checked_out, diffbase) == diffbase

\* commit-tree's `-p HEAD`
patch_parent(checked_out, diffbase) == checked_out

patch_tree_of_base(source, base) == base.tree

\* The tree given to commit-tree.
patch_tree(source, base) == source.tree

\* Step 5: interpret-trailers piped into commit-tree.  The exit status of
\* interpret-trailers is not looked at; commit-tree's output is parsed.
Step5Create ==
  /\ pc = "create"
  /\ \E rewritten \in BOOLEAN, made \in BOOLEAN :
       LET text == IF rewritten
                   THEN interpret_trailers(
                          msg,
                          TrailerLine(BRANCH_DIRECTIVE, unprefixed(target_branch)),
                          TrailerLine(SOURCE_DIRECTIVE, source_commit.oid))
                   ELSE EmptyMessage
           c == [parents |-> <<patch_parent(HEAD, remote_diffbase)>>,
                 tree |-> patch_tree(source_commit, base_commit),
                 message |-> text]
       IN  /\ log' = log \o <<[op |-> "interpret-trailers", arg |-> "replace", ok |-> rewritten],
                              [op |-> "commit-tree", arg |-> c.tree, ok |-> made]>>
           /\ IF made
              THEN \E oid \in NewOids(c) :
                     LET result == parse_oid(oid \o "\n")
                     IN  /\ objects' = Store(oid, c)
                         /\ created' = created \cup {oid}
                         /\ remote_commit' = result.val
                         /\ pc' = "checkout_result"
                         /\ UNCHANGED error
              ELSE /\ Fail(parse_oid("").err)
                   /\ UNCHANGED <<objects, created, remote_commit>>
  /\ UNCHANGED <<refs, HEAD, MERGE_HEAD, index, mainvars, commits, target_branch,
                 remote_diffbase, merge_head, new_branch, base_commit, same_tree, msg,
                 start, runs, lk, io>>

Step5Checkout_skipped ==
  /\ pc = "checkout_result"
  /\ pc' = "return"
  /\ UNCHANGED <<repo, mainvars, commits, locals, error, log, start, runs, lk, io>>

\* Step 5: git checkout --detach result
Step5Checkout ==
  /\ pc = "checkout_result"
  /\ \E ok \in CheckoutOutcomes :
       /\ log' = Logged("checkout", remote_commit, ok)
       /\ IF ok THEN HEAD' = remote_commit /\ pc' = "return" /\ UNCHANGED error
          ELSE Fail(GitContract("failed to commit merge")) /\ UNCHANGED HEAD
  /\ UNCHANGED <<objects, refs, MERGE_HEAD, index, created, mainvars, commits,
                 locals, start, runs, lk, io>>

\* main: integrate returned Ok; println!("{}", result.remote_commit)
MainPrint ==
  /\ pc = "return"
  /\ log' = Logged("print", remote_commit, TRUE)
  /\ pc' = "restore"
  /\ UNCHANGED <<repo, mainvars, commits, locals, error, start, runs, lk, io>>

after_restore_always(push) == "push"

\* if push { git push ... }
after_restore(push) == IF push THEN "push" ELSE "done"

\* main: git checkout original_head --
MainRestore ==
  /\ pc = "restore"
  /\ \E ok \in CheckoutOutcomes :
       /\ log' = Logged("checkout", original_head, ok)
       /\ IF ok
          THEN /\ HEAD' = original_head
               /\ pc' = after_restore(args.push)
               /\ UNCHANGED error
          ELSE Fail(GitContract("failed to check out original commit")) /\ UNCHANGED HEAD
  /\ UNCHANGED <<objects, refs, MERGE_HEAD, index, created, mainvars, commits,
                 locals, start, runs, lk, io>>

\* main: git push [--dry-run] remote remote_commit:refs/heads/target_branch
MainPush ==
  /\ pc = "push"
  /\ \E ok \in BOOLEAN :
       /\ log' = Append(log, [op |-> "push",
                              arg |-> remote_commit \o ":refs/heads/" \o target_branch,
                              ok |-> ok, dry_run |-> args.dry_run, remote |-> args.remote])
       /\ IF ok
          THEN /\ refs' = IF args.dry_run THEN refs
                          ELSE ("refs/remotes/" \o args.remote \o "/" \o target_branch
                                  :> remote_commit) @@ refs
               /\ pc' = "done"
               /\ UNCHANGED error
          ELSE Fail(GitContract("failed to push")) /\ UNCHANGED refs
  /\ UNCHANGED <<objects, HEAD, MERGE_HEAD, index, created, mainvars, commits,
                 locals, start, runs, lk, io>>

(***************************************************************************)
(* The repositories and command lines the model starts from.  c1 is a root *)
(* commit, c2 the local diffbase, c3 the change (checked out), c4 what was *)
(* pushed for c2's branch, c5 what was pushed for c3's branch.             *)
(***************************************************************************)
Ref(branch) == "refs/remotes/origin/" \o branch

ParentTrailers ==
  { <<>>,
    <<"wchargin-branch: base">>,
    <<"wchargin-branch: base", "Reviewed-by: x: y", "wchargin-branch: base">> }

SourceTrailers ==
  { <<"Reviewed-by: x: y">>,
    <<"Reviewed-by: x: y", "wchargin-branch: foo">>,
    <<"wchargin-source: c1", "wchargin-branch: foo", "Reviewed-by: x: y">>,
    <<"wchargin-source: c1", "Reviewed-by: x: y", "wchargin-branch: foo",
      "wchargin-source: c2">>,
    <<"wchargin-branch: foo", "Wchargin-Branch: bar">>,
    <<"wchargin-branch: foo", "wchargin-branch: bar">> }

Repository(pt, st, stree, tiptree, tipparent) ==
  ("c1" :> [parents |-> <<>>, tree |-> "t0",
            message |-> Message("init\n", <<"wchargin-branch: root">>)])
  @@ ("c2" :> [parents |-> <<"c1">>, tree |-> "t1",
               message |-> Message("Add base\n", pt)])
  @@ ("c3" :> [parents |-> <<"c2">>, tree |-> stree,
               message |-> Message("Fix bug\n", st)])
  @@ ("c4" :> [parents |-> <<"c1">>, tree |-> "t1",
               message |-> Message("Add base\n",
                             <<"wchargin-branch: base", "wchargin-source: c2">>)])
  @@ ("c5" :> [parents |-> <<tipparent>>, tree |-> tiptree,
               message |-> Message("Fix bug\n",
                             <<"Reviewed-by: x: y", "wchargin-branch: foo",
                               "wchargin-source: c3">>)])

\* The tips the remote branch of c3 can have, with c5's tree and parent.
TargetTips ==
  {<<None, "t1", "c2">>, <<"c1", "t1", "c2">>}
    \cup {<<"c5", t, p>> : t \in {"t1", "t2"}, p \in {"c2", "c4"}}

Args ==
  [commit : {"HEAD", "c1", "c2"}, push : BOOLEAN, dry_run : BOOLEAN,
   allow_empty : BOOLEAN, bump : BOOLEAN, remote : {"origin"},
   message : {None, "tweak"}]

Snapshot == [refs |-> refs, objects |-> DOMAIN objects, HEAD |-> HEAD]

InitProgram ==
  /\ pc = "start"
  /\ original_head = None
  /\ commits = <<>>
  /\ source_commit = NoCommit
  /\ allow_empty = FALSE
  /\ target_branch = None
  /\ remote_diffbase = None
  /\ merge_head = None
  /\ new_branch = FALSE
  /\ base_commit = NoCommit
  /\ same_tree = FALSE
  /\ msg = NoMessage
  /\ remote_commit = None
  /\ error = NoError
  /\ log = <<>>
  /\ runs = <<>>

\* The trailers of the root commit c1: none is looked at only when c1 is
\* the source commit.
RootTrailers == {<<"wchargin-branch: root">>, <<>>}

InitRepository ==
  \E pt \in ParentTrailers, st \in SourceTrailers, stree \in {"t1", "t2"},
     tip \in TargetTips, basetip \in {None, "c4"}, rt \in RootTrailers :
    /\ objects = [Repository(pt, st, stree, tip[2], tip[3])
                    EXCEPT !["c1"].message.trailers = rt]
    /\ refs = (Ref("wchargin-foo") :> tip[1]) @@ (Ref("wchargin-base") :> basetip)
    /\ HEAD = "c3"
    /\ MERGE_HEAD = None
    /\ index = None
    /\ created = {}

Init ==
  /\ InitRepository
  /\ InitProgram
  /\ args \in {a \in Args : a.dry_run => a.push}
  /\ objects["c1"].message.trailers = <<>> => args.commit = "c1"
  /\ start = Snapshot
  /\ lk = NoLookup
  /\ io = NoPipes

Next ==
  \/ MainStart
  \/ Step0
  \/ Step1
  \/ Step2
  \/ Step3
  \/ Step4
  \/ Step4Stage
  \/ Step4Commit
  \/ Step5
  \/ Step5Create
  \/ Step5Checkout
  \/ MainPrint
  \/ MainRestore
  \/ MainPush

Spec == Init /\ [][Next]_vars

(***************************************************************************)
(* The command run again with the same command line, in the repository the *)
(* earlier invocation left.  A new process starts with an empty cache.     *)
(***************************************************************************)
\* Whether integrate returned Ok: main printed the commit.
Returned == \E i \in 1..Len(log) : log[i].op = "print"

Rerun ==
  /\ pc \in {"done", "failed"}
  /\ Len(runs) + 1 < MaxRuns
  /\ runs' = Append(runs, [start |-> start,
                           source |-> source_commit.oid,
                           returned |-> Returned,
                           remote_commit |-> IF Returned THEN remote_commit ELSE None,
                           created |-> created])
  /\ start' = Snapshot
  /\ pc' = "start"
  /\ original_head' = None
  /\ commits' = <<>>
  /\ source_commit' = NoCommit
  /\ allow_empty' = FALSE
  /\ target_branch' = None
  /\ remote_diffbase' = None
  /\ merge_head' = None
  /\ new_branch' = FALSE
  /\ base_commit' = NoCommit
  /\ same_tree' = FALSE
  /\ msg' = NoMessage
  /\ remote_commit' = None
  /\ error' = NoError
  /\ log' = <<>>
  /\ UNCHANGED <<repo, args, lk, io>>

NextRerun == Next \/ Rerun

\* The re-run specification starts from the command lines without --bump,
\* --allow-empty and -m.
InitRerun ==
  /\ Init
  /\ ~args.bump /\ ~args.allow_empty /\ args.message = None
  /\ objects["c1"].message.trailers # <<>>

SpecRerun == InitRerun /\ [][NextRerun]_vars

(***************************************************************************)
(* The trailer lookup alone, over every trailer list of up to MaxLen pairs. *)
(***************************************************************************)
LookupKeys == {BRANCH_DIRECTIVE, SOURCE_DIRECTIVE}
LookupValues == {"foo", "bar"}

RECURSIVE ListsUpTo(_)
ListsUpTo(n) ==
  IF n = 0 THEN {<<>>}
  ELSE ListsUpTo(n - 1)
         \cup {Append(l, <<k, v>>) :
                 l \in {x \in ListsUpTo(n - 1) : Len(x) = n - 1},
                 k \in LookupKeys, v \in LookupValues}

InitLookup ==
  /\ objects = Repository(<<>>, <<"wchargin-branch: foo">>, "t2", "t1", "c2")
  /\ refs = (Ref("wchargin-foo") :> None) @@ (Ref("wchargin-base") :> None)
  /\ HEAD = "c3"
  /\ MERGE_HEAD = None
  /\ index = None
  /\ created = {}
  /\ InitProgram
  /\ args = [commit |-> "HEAD", push |-> FALSE, dry_run |-> FALSE,
             allow_empty |-> FALSE, bump |-> FALSE, remote |-> "origin",
             message |-> None]
  /\ start = Snapshot
  /\ \E key \in LookupKeys, list \in ListsUpTo(MaxLen) :
       lk = [NoLookup EXCEPT !.key = key, !.trailers = list]
  /\ io = NoPipes

\* look_up_trailer(key, trailers)
LookUp ==
  /\ ~lk.done
  /\ \E found \in {look_up_trailer(lk.key, lk.trailers)} :
       lk' = [lk EXCEPT !.done = TRUE, !.first = found, !.result = found]
  /\ UNCHANGED <<repo, pc, mainvars, commits, locals, error, log, start, runs, io>>

\* found.plus(value) for one more match of the key
PlusMore ==
  /\ lk.done
  /\ lk.extra < MaxExtra
  /\ \E v \in LookupValues :
       lk' = [lk EXCEPT !.result = plus(@, v), !.extra = @ + 1]
  /\ UNCHANGED <<repo, pc, mainvars, commits, locals, error, log, start, runs, io>>

NextLookup == LookUp \/ PlusMore

SpecLookup == InitLookup /\ [][NextLookup]_vars


(***************************************************************************)
(* GitStore on its own: any sequence of commit() calls, between which the   *)
(* checkout moves and commits are created, as integrate's commands do.      *)
(***************************************************************************)
MaxNew == 1

CacheRefs ==
  {"HEAD", "c3", "c3~", "c1~^{commit}", "refs/remotes/origin/wchargin-foo"}

InitCache ==
  /\ objects = Repository(<<>>, <<"wchargin-branch: foo">>, "t2", "t1", "c4")
  /\ refs = (Ref("wchargin-foo") :> "c5") @@ (Ref("wchargin-base") :> "c4")
  /\ HEAD \in {"c3", "c5"}
  /\ MERGE_HEAD = None
  /\ index = None
  /\ created = {}
  /\ InitProgram
  /\ args = [commit |-> "HEAD", push |-> FALSE, dry_run |-> FALSE,
             allow_empty |-> FALSE, bump |-> FALSE, remote |-> "origin",
             message |-> None]
  /\ start = Snapshot
  /\ lk = NoLookup
  /\ io = NoPipes

\* git.commit(hash); log keeps the last call, its result and the keys the
\* cache had before it
CacheCommit ==
  /\ \E hash \in CacheRefs :
       \E r \in {commit(hash)} :
         /\ commits' = r.cache
         /\ log' = <<[op |-> "GitStore::commit", arg |-> hash,
                      ok |-> r.res.ok, res |-> r.res, before |-> DOMAIN commits]>>
  /\ UNCHANGED <<repo, pc, mainvars, locals, error, start, runs, lk, io>>

\* git checkout --detach of some commit
CacheCheckout ==
  /\ \E oid \in DOMAIN objects : HEAD' = oid
  /\ UNCHANGED <<objects, refs, MERGE_HEAD, index, created, pc, mainvars, commits,
                 locals, error, log, start, runs, lk, io>>

\* a commit is created on the checked-out one and checked out
CacheNewCommit ==
  /\ Cardinality(created) < MaxNew
  /\ HEAD \in {"c3", "c5"} \cup created
  /\ \E oid \in {"c" \o ToString(Cardinality(DOMAIN objects) + 1)} :
       /\ objects' = Store(oid, [parents |-> <<HEAD>>, tree |-> objects[HEAD].tree,
                                 message |-> EmptyMessage])
       /\ created' = created \cup {oid}
       /\ HEAD' = oid
  /\ UNCHANGED <<refs, MERGE_HEAD, index, pc, mainvars, commits, locals, error, log,
                 start, runs, lk, io>>

NextCache == CacheCommit \/ CacheCheckout \/ CacheNewCommit

SpecCache == InitCache /\ [][NextCache]_vars


(***************************************************************************)
(* Step 5's pipeline on its own: the parent writes the message to           *)
(* interpret-trailers, whose output is commit-tree's input, and reads        *)
(* commit-tree's output.  A write blocks while its pipe is full, a read      *)
(* while its pipe is empty and the write end is open.                        *)
(***************************************************************************)
MaxMsg == 3
MaxCap == 2
MaxErr == 2
\* bytes the two --trailer arguments add, and the bytes of an id with its "\n"
TrailerBytes == 2
OidBytes == 2

\* interpret-trailers (stdin, stdout and stderr piped) and commit-tree (stdin
\* = that stdout, stdout piped) are spawned; the message is still to write.
InitPipe ==
  /\ objects = Repository(<<>>, <<"wchargin-branch: foo">>, "t2", "t1", "c2")
  /\ refs = (Ref("wchargin-foo") :> None) @@ (Ref("wchargin-base") :> None)
  /\ HEAD = "c3"
  /\ MERGE_HEAD = None
  /\ index = None
  /\ created = {}
  /\ InitProgram
  /\ args = [commit |-> "HEAD", push |-> FALSE, dry_run |-> FALSE,
             allow_empty |-> FALSE, bump |-> FALSE, remote |-> "origin",
             message |-> None]
  /\ start = Snapshot
  /\ lk = NoLookup
  /\ \E cap \in 1..MaxCap, len \in 0..MaxMsg, err \in 0..MaxErr :
       io = [NoPipes EXCEPT !.cap = cap, !.msg = len, !.len = len, !.err = err,
                            !.parent = "write_all", !.it = "start", !.ct = "read"]

Space(fill) == io.cap - fill

Least(x, y) == IF x <= y THEN x ELSE y

PipeUnchanged ==
  UNCHANGED <<repo, pc, mainvars, commits, locals, error, log, start, runs, lk>>

\* stdin.write_all(msg.as_bytes()): some bytes go into the pipe when it has room
ParentWrite ==
  /\ io.parent = "write_all" /\ io.msg > 0 /\ Space(io.a) > 0
  /\ \E k \in 1..Least(io.msg, Space(io.a)) :
       io' = [io EXCEPT !.msg = @ - k, !.a = @ + k]
  /\ PipeUnchanged

\* write_all returns; interpret_trailers_child.wait() first closes the stdin
\* handle
ParentCloseStdin ==
  /\ io.parent = "write_all" /\ io.msg = 0
  /\ io' = [io EXCEPT !.a_closed = TRUE, !.parent = "wait"]
  /\ PipeUnchanged

\* interpret_trailers_child.wait() returns when the child has exited
ParentWait ==
  /\ io.parent = "wait" /\ io.it = "exited"
  /\ io' = [io EXCEPT !.parent = "wait_with_output"]
  /\ PipeUnchanged

\* commit_tree_child.wait_with_output(): read stdout up to its end
ParentRead ==
  /\ io.parent = "wait_with_output" /\ io.c > 0
  /\ \E k \in 1..io.c : io' = [io EXCEPT !.c = @ - k, !.got = @ + k]
  /\ PipeUnchanged

\* end of commit-tree's output: parse_oid
ParentDone ==
  /\ io.parent = "wait_with_output" /\ io.c = 0 /\ io.c_closed
  /\ io' = [io EXCEPT !.parent = "parse_oid"]
  /\ PipeUnchanged

\* interpret-trailers writes its diagnostics, if any, to stderr, which is a
\* pipe nothing reads
TrailersWarn ==
  /\ io.it = "start" /\ io.err > 0 /\ Space(io.e) > 0
  /\ \E k \in 1..Least(io.err, Space(io.e)) :
       io' = [io EXCEPT !.err = @ - k, !.e = @ + k]
  /\ PipeUnchanged

TrailersStart ==
  /\ io.it = "start" /\ io.err = 0
  /\ io' = [io EXCEPT !.it = "read"]
  /\ PipeUnchanged

\* interpret-trailers reads all of its input before it writes
TrailersRead ==
  /\ io.it = "read" /\ io.a > 0
  /\ \E k \in 1..io.a : io' = [io EXCEPT !.a = @ - k, !.it_in = @ + k]
  /\ PipeUnchanged

TrailersEndOfInput ==
  /\ io.it = "read" /\ io.a = 0 /\ io.a_closed
  /\ io' = [io EXCEPT !.it = "write", !.it_out = io.it_in + TrailerBytes]
  /\ PipeUnchanged

TrailersWrite ==
  /\ io.it = "write" /\ io.it_out > 0 /\ Space(io.b) > 0
  /\ \E k \in 1..Least(io.it_out, Space(io.b)) :
       io' = [io EXCEPT !.it_out = @ - k, !.b = @ + k]
  /\ PipeUnchanged

TrailersExit ==
  /\ io.it = "write" /\ io.it_out = 0
  /\ io' = [io EXCEPT !.it = "exited", !.b_closed = TRUE]
  /\ PipeUnchanged

\* commit-tree reads the message up to its end, then prints the new id
CommitTreeRead ==
  /\ io.ct = "read" /\ io.b > 0
  /\ \E k \in 1..io.b : io' = [io EXCEPT !.b = @ - k, !.ct_in = @ + k]
  /\ PipeUnchanged

CommitTreeEndOfInput ==
  /\ io.ct = "read" /\ io.b = 0 /\ io.b_closed
  /\ io' = [io EXCEPT !.ct = "write", !.ct_out = OidBytes]
  /\ PipeUnchanged

CommitTreeWrite ==
  /\ io.ct = "write" /\ io.ct_out > 0 /\ Space(io.c) > 0
  /\ \E k \in 1..Least(io.ct_out, Space(io.c)) :
       io' = [io EXCEPT !.ct_out = @ - k, !.c = @ + k]
  /\ PipeUnchanged

CommitTreeExit ==
  /\ io.ct = "write" /\ io.ct_out = 0
  /\ io' = [io EXCEPT !.ct = "exited", !.c_closed = TRUE]
  /\ PipeUnchanged

NextPipe ==
  \/ ParentWrite
  \/ ParentCloseStdin
  \/ ParentWait
  \/ ParentRead
  \/ ParentDone
  \/ TrailersWarn
  \/ TrailersStart
  \/ TrailersRead
  \/ TrailersEndOfInput
  \/ TrailersWrite
  \/ TrailersExit
  \/ CommitTreeRead
  \/ CommitTreeEndOfInput
  \/ CommitTreeWrite
  \/ CommitTreeExit

SpecPipe == InitPipe /\ [][NextPipe]_vars


(***************************************************************************)
(* Properties.                                                             *)
(***************************************************************************)
\* integrate has returned Ok: it is about to, or main has printed the result.
IntegrateOk == pc = "return" \/ Returned

\* The remote tip of a branch when the invocation started.
TipAtStart(branch) ==
  IF Ref(branch) \in DOMAIN start.refs THEN start.refs[Ref(branch)] ELSE None

\* The values of the branch trailers of a message, in order.
BranchValues(message) ==
  SelectSeq([i \in 1..Len(message.trailers) |->
               IF Len(message.trailers[i]) >= Len(BRANCH_DIRECTIVE) + 2
                  /\ SubSeq(message.trailers[i], 1, Len(BRANCH_DIRECTIVE) + 2)
                       = BRANCH_DIRECTIVE \o ": "
               THEN SubSeq(message.trailers[i], Len(BRANCH_DIRECTIVE) + 3,
                           Len(message.trailers[i]))
               ELSE None],
            LAMBDA v : v # None)

HasOp(op) == \E i \in 1..Len(log) : log[i].op = op
HasFailed(op) == \E i \in 1..Len(log) : log[i].op = op /\ ~log[i].ok

\* C1: whenever integrate returns Ok, the tree of the returned remote_commit
\* is the tree of the source commit.
C1_Treequal ==
  IntegrateOk =>
    /\ remote_commit \in DOMAIN objects
    /\ objects[remote_commit].tree = objects[source_commit.oid].tree

\* C1 witness: a patch commit returned after a conflicted Step 4 merge onto
\* an existing target branch.
C1_Witness ==
  /\ pc = "return"
  /\ HasFailed("merge")
  /\ HasOp("commit-tree")
  /\ ~new_branch
  /\ objects[remote_commit].tree = objects[source_commit.oid].tree

\* C2: whenever integrate returns Ok for a target branch that had a remote
\* tip, that tip is the returned remote_commit or an ancestor of it.
C2_FastForward ==
  (IntegrateOk /\ target_branch # None /\ TipAtStart(target_branch) # None) =>
    IsAncestor(objects, TipAtStart(target_branch), remote_commit)

\* C2 witness: the conflict-commit path on an existing branch, returning a
\* proper descendant of the remote tip.
C2_Witness ==
  /\ pc = "return"
  /\ TipAtStart(target_branch) # None
  /\ HasOp("commit")
  /\ remote_commit # TipAtStart(target_branch)
  /\ IsAncestor(objects, TipAtStart(target_branch), remote_commit)

\* C3: once Step 5 has read HEAD as base, if base's tree is the source tree
\* and allow_empty is false, integrate returns base's id and runs neither
\* interpret-trailers nor commit-tree.
C3_NoOp ==
  (/\ base_commit # NoCommit
   /\ objects[base_commit.oid].tree = objects[source_commit.oid].tree
   /\ ~allow_empty) =>
    /\ remote_commit = base_commit.oid
    /\ pc \notin {"create", "checkout_result"}
    /\ ~HasOp("interpret-trailers")
    /\ ~HasOp("commit-tree")
    /\ (pc = "return" => HEAD = base_commit.oid)

\* C3 witness: the no-op on a new branch, with an explicit message given.
C3_Witness ==
  /\ pc = "return"
  /\ objects[base_commit.oid].tree = objects[source_commit.oid].tree
  /\ ~allow_empty
  /\ new_branch
  /\ args.message # None
  /\ remote_commit = base_commit.oid

\* The last earlier invocation.
Previous == runs[Len(runs)]

\* The case of C4 in a re-run: the same source commit, remote refs as the
\* earlier invocation found them, a remote tip of the target branch whose
\* tree is the source tree, and allow_empty false.
C4_Case ==
  /\ Len(runs) >= 1
  /\ target_branch # None
  /\ Previous.source = source_commit.oid
  /\ Previous.start.refs = start.refs
  /\ TipAtStart(target_branch) # None
  /\ objects[TipAtStart(target_branch)].tree = objects[source_commit.oid].tree
  /\ ~allow_empty

\* C4 as stated: in that case, after a run that returned, a re-run creates no
\* commit object and returns the remote_commit the earlier run returned.
C4_Original ==
  (C4_Case /\ Previous.returned) =>
    /\ created = Previous.created
    /\ IntegrateOk => remote_commit = Previous.remote_commit

\* C4, amended: the same when in addition the remote diffbase is the remote
\* tip of the target branch or an ancestor of it.  Then no run creates a
\* commit object and every run that returns returns that remote tip.
C4_Idempotent ==
  (C4_Case /\ remote_diffbase # None
   /\ IsAncestor(objects, remote_diffbase, TipAtStart(target_branch))) =>
    /\ start.objects = Previous.start.objects
    /\ DOMAIN objects = start.objects
    /\ Previous.returned => Previous.remote_commit = TipAtStart(target_branch)
    /\ IntegrateOk => remote_commit = TipAtStart(target_branch)

\* C4 witness: a second run that returns what the first returned.
C4_Witness ==
  /\ C4_Case
  /\ remote_diffbase # None
  /\ IsAncestor(objects, remote_diffbase, TipAtStart(target_branch))
  /\ pc = "return"
  /\ Previous.returned
  /\ remote_commit = Previous.remote_commit
  /\ DOMAIN objects = Previous.start.objects

\* The branch of a message with one branch trailer: prefix + value.
BranchOf(message) == "wchargin-" \o BranchValues(message)[1]

\* The <branch> of Step 5's generated messages, as the engine writes it: the
\* value of the source commit's branch trailer.
C5_Branch == BranchValues(objects[source_commit.oid].message)[1]

C5_Text(what) == Message("[" \o C5_Branch \o ": " \o what \o "\n", <<>>)

\* C5: the message Step 5 chooses is, by first match: the source message when
\* new_branch; else "[<branch>: bump ci]" when the trees are equal and bump;
\* else "[<branch>: no-op] [ci skip]" when the trees are equal; else
\* "[<branch>: M]" with M the explicit message or "update patch".
C5_MessageTable ==
  msg # NoMessage =>
    LET new == TipAtStart(target_branch) = None
        same == objects[base_commit.oid].tree = objects[source_commit.oid].tree
    IN  /\ new => msg = objects[source_commit.oid].message
        /\ (~new /\ same /\ args.bump) => msg = C5_Text("bump ci]")
        /\ (~new /\ same /\ ~args.bump) => msg = C5_Text("no-op] [ci skip]")
        /\ (~new /\ ~same /\ args.message # None) =>
             msg = C5_Text(args.message \o "]")
        /\ (~new /\ ~same /\ args.message = None) => msg = C5_Text("update patch]")

\* C5 witness: new_branch dominates an unchanged tree with bump and an
\* explicit message.
C5_Witness ==
  /\ pc = "create"
  /\ new_branch /\ same_tree /\ args.bump /\ args.message # None
  /\ msg = source_commit.message

\* The parent of the source commit, None for a root commit.
ParentOfSource ==
  IF objects[source_commit.oid].parents = <<>> THEN None
  ELSE objects[source_commit.oid].parents[1]

ParentValues == BranchValues(objects[ParentOfSource].message)

\* Step 1 returned an error.
Step1Failed == pc = "failed" /\ target_branch # None /\ remote_diffbase = None

\* C6: after Step 1 the remote diffbase is the remote tip of the parent's
\* branch when the parent has exactly one branch trailer and that remote
\* branch exists, and the parent's own id when the parent has no branch
\* trailer or its remote branch does not exist; a parent without the trailer
\* does not make Step 1 fail.
C6_Diffbase ==
  /\ remote_diffbase # None =>
       /\ Len(ParentValues) <= 1
       /\ (Len(ParentValues) = 1 /\ TipAtStart(BranchOf(objects[ParentOfSource].message)) # None)
            => remote_diffbase = TipAtStart(BranchOf(objects[ParentOfSource].message))
       /\ (Len(ParentValues) = 1 /\ TipAtStart(BranchOf(objects[ParentOfSource].message)) = None)
            => remote_diffbase = ParentOfSource
       /\ Len(ParentValues) = 0 => remote_diffbase = ParentOfSource
  /\ Step1Failed => (ParentOfSource = None \/ Len(ParentValues) >= 2)

\* C6 witness: the parent carries "wchargin-branch: base" and the remote
\* branch wchargin-base exists, so the remote diffbase is its tip.
C6_Witness ==
  /\ pc = "step2"
  /\ ParentOfSource = "c2"
  /\ ParentValues = <<"base">>
  /\ TipAtStart("wchargin-base") = "c4"
  /\ remote_diffbase = "c4"

\* C7: after Step 2, new_branch holds exactly when the target branch has no
\* remote tip; the merge head is the remote diffbase when new_branch and the
\* remote tip otherwise; Step 3 checks out the merge head; and target_branch
\* is prefix + the value of the source commit's branch trailer.
C7_MergeHead ==
  merge_head # None =>
    /\ new_branch <=> (TipAtStart(target_branch) = None)
    /\ merge_head = IF TipAtStart(target_branch) = None THEN remote_diffbase
                    ELSE TipAtStart(target_branch)
    /\ (\A i \in 1..Len(log) : i = 1 => (log[i].op = "checkout" /\ log[i].arg = merge_head))
    /\ pc = "step4" => HEAD = merge_head
    /\ target_branch = BranchOf(objects[source_commit.oid].message)

\* C7 witness: Scenario A, returned: trailer value foo, no remote branch.
C7_Witness ==
  /\ pc = "return"
  /\ BranchValues(source_commit.message) = <<"foo">>
  /\ TipAtStart("wchargin-foo") = None
  /\ new_branch
  /\ merge_head = remote_diffbase
  /\ remote_diffbase = ParentOfSource
  /\ target_branch = "wchargin-foo"

\* Step 0 has run.
Step0Done == source_commit # NoCommit /\ pc \notin {"start", "step0"}

\* No command has touched the checkout, the index or the object store.
Untouched ==
  /\ log = <<>>
  /\ HEAD = start.HEAD
  /\ DOMAIN objects = start.objects
  /\ MERGE_HEAD = None
  /\ index = None

\* C8: a source commit without a branch trailer makes integrate fail with
\* MissingTrailer naming the source commit and "wchargin-branch", before any
\* checkout, merge or commit.
C8_MissingTrailer ==
  (Step0Done /\ BranchValues(objects[source_commit.oid].message) = <<>>) =>
    /\ pc = "failed"
    /\ error = [kind |-> "MissingTrailer", oid |-> source_commit.oid,
                key |-> "wchargin-branch"]
    /\ Untouched

\* C8 witness: the failure itself.
C8_Witness ==
  /\ pc = "failed"
  /\ BranchValues(source_commit.message) = <<>>
  /\ error.kind = "MissingTrailer"
  /\ error.oid = "c3"

\* Steps 0 and 1 have run.
Step1Done == Step0Done /\ pc # "step1"

SourceDuplicate == Len(BranchValues(objects[source_commit.oid].message)) >= 2
ParentDuplicate == ParentOfSource # None /\ Len(ParentValues) >= 2

DuplicateReported(oid) ==
  /\ pc = "failed"
  /\ error = [kind |-> "DuplicateTrailer", oid |-> oid, key |-> "wchargin-branch"]
  /\ Untouched

\* C9 as stated: a branch trailer given twice in the source commit's or in its
\* parent's message makes integrate fail with DuplicateTrailer naming that
\* commit, before any checkout.
C9_Original ==
  /\ (Step0Done /\ SourceDuplicate) => DuplicateReported(source_commit.oid)
  /\ (Step1Done /\ ~SourceDuplicate /\ ParentDuplicate) => DuplicateReported(ParentOfSource)

\* C9, amended: the parent's duplicate is reported when the source commit
\* itself carries exactly one branch trailer (Step 0 comes first).
C9_DuplicateTrailer ==
  /\ (Step0Done /\ SourceDuplicate) => DuplicateReported(source_commit.oid)
  /\ (Step1Done /\ Len(BranchValues(objects[source_commit.oid].message)) = 1
        /\ ParentDuplicate) => DuplicateReported(ParentOfSource)

\* C9 witness: the parent's duplicate, reported with the parent's id.
C9_Witness ==
  /\ pc = "failed"
  /\ Len(BranchValues(source_commit.message)) = 1
  /\ ParentDuplicate
  /\ error = [kind |-> "DuplicateTrailer", oid |-> "c2", key |-> "wchargin-branch"]

\* The indices of the trailers of the lookup's list that have its key.
Occurrences == {i \in 1..Len(lk.trailers) : lk.trailers[i][1] = lk.key}

\* C10: a lookup yields Missing for no occurrence of the key, Unique with the
\* occurrence's value for exactly one, Duplicate for two or more wherever
\* they stand; and a Duplicate stays Duplicate under further matches.
C10_Lookup ==
  lk.done =>
    /\ Occurrences = {} => lk.first = [kind |-> "Missing", key |-> lk.key]
    /\ \A i \in Occurrences :
         Occurrences = {i} =>
           lk.first = [kind |-> "Unique", key |-> lk.key, value |-> lk.trailers[i][2]]
    /\ Cardinality(Occurrences) >= 2 => lk.first = [kind |-> "Duplicate", key |-> lk.key]
    /\ lk.first.kind = "Duplicate" => lk.result = lk.first

\* C10 witness: two occurrences with different values, separated by another
\* key, and a further match folded in.
C10_Witness ==
  /\ lk.done
  /\ lk.extra > 0
  /\ Len(lk.trailers) = 3
  /\ Occurrences = {1, 3}
  /\ lk.trailers[1][2] # lk.trailers[3][2]
  /\ lk.result.kind = "Duplicate"

\* The last command run, and whether there is one.
LastOp == log[Len(log)]
Ran(op, ok) == Len(log) > 0 /\ LastOp.op = op /\ LastOp.ok = ok

\* C11: a failed merge command is not an error: it is followed by `git add .`
\* and `git commit`, and the new commit is what Step 5 goes on with; only a
\* failed add or commit aborts Step 4; after a successful merge neither runs.
C11_MergeFailure ==
  /\ \A i \in 1..Len(log) :
       log[i].op = "merge" =>
         /\ (log[i].ok /\ i < Len(log)) => log[i + 1].op \notin {"add", "commit"}
         /\ (~log[i].ok /\ i < Len(log)) => log[i + 1].op = "add"
         /\ (~log[i].ok /\ i + 1 < Len(log) /\ log[i + 1].ok) => log[i + 2].op = "commit"
         /\ (~log[i].ok /\ i < Len(log)) => (log[i + 1].ok \/ i + 1 = Len(log))
  /\ \A i \in 1..Len(log) :
       log[i].op \in {"add", "commit"} => (i > 1 /\ ~log[2].ok /\ log[2].op = "merge")
  /\ Ran("merge", FALSE) => pc = "stage"
  /\ Ran("merge", TRUE) => pc \in {"step5", "create", "return"}
  /\ Ran("add", TRUE) => pc = "commit_merge"
  /\ Ran("add", FALSE) => pc = "failed" /\ error = GitContract("failed to stage")
  /\ Ran("commit", FALSE) => pc = "failed" /\ error = GitContract("failed to commit merge")
  /\ Ran("commit", TRUE) =>
       /\ pc \in {"step5", "create", "return"}
       /\ objects[HEAD].parents = <<merge_head, remote_diffbase>>
       /\ objects[HEAD].tree = ConflictTree
  /\ (base_commit # NoCommit /\ HasOp("commit")) =>
       objects[base_commit.oid].parents = <<merge_head, remote_diffbase>>

\* C11 witness: integrate returns a result although the merge command failed.
C11_Witness ==
  /\ pc = "return"
  /\ Len(log) >= 4
  /\ log[2] = [op |-> "merge", arg |-> remote_diffbase, ok |-> FALSE]
  /\ log[3].op = "add" /\ log[3].ok
  /\ log[4].op = "commit" /\ log[4].ok
  /\ remote_commit # None

\* How many of the lines have the key, and the lines with other keys.
KeyCount(lines, key) == Cardinality({i \in 1..Len(lines) : LineKey(lines[i]) = key})
Others(lines) ==
  SelectSeq(lines, LAMBDA l : LineKey(l) \notin {"wchargin-branch", "wchargin-source"})

\* Step 5 has just created the patch commit remote_commit, the trailer
\* rewrite having exited with success.
PatchCreated ==
  /\ pc = "checkout_result"
  /\ log[Len(log) - 1].op = "interpret-trailers" /\ log[Len(log) - 1].ok

\* C12: the message of every patch commit Step 5 creates has exactly one
\* branch trailer and exactly one source trailer, the latter with the source
\* commit's id, whatever trailers the chosen message had; the other trailers
\* are kept in their order.
C12_Original ==
  PatchCreated =>
    LET made == objects[remote_commit].message.trailers
    IN  /\ KeyCount(made, "wchargin-branch") = 1
        /\ KeyCount(made, "wchargin-source") = 1
        /\ \E i \in 1..Len(made) : made[i] = "wchargin-source: " \o source_commit.oid
        /\ Others(made) = Others(msg.trailers)

\* C13: whenever integrate returns Ok, the checkout is at the returned
\* remote_commit: the post-merge base in the no-op outcome, the new commit,
\* checked out by the last command, in the patch-commit outcome.
C13_CheckedOut ==
  pc = "return" =>
    /\ HEAD = remote_commit
    /\ remote_commit \in DOMAIN objects
    /\ MERGE_HEAD = None
    /\ HasOp("commit-tree") => Ran("checkout", TRUE) /\ LastOp.arg = remote_commit
    /\ ~HasOp("commit-tree") => remote_commit = base_commit.oid

\* C13 witness: a new patch commit is returned and checked out.
C13_Witness ==
  /\ pc = "return"
  /\ HasOp("commit-tree")
  /\ remote_commit \notin start.objects
  /\ remote_commit # base_commit.oid
  /\ HEAD = remote_commit

\* The positions of the log where the result was printed / a push was run.
Printed == {i \in 1..Len(log) : log[i].op = "print"}
Pushed == {i \in 1..Len(log) : log[i].op = "push"}

\* The command at position i is the last command of a successful integrate
\* that returned the commit oid.
EndsIntegrate(i, oid) ==
  /\ i >= 2
  /\ log[i].ok
  /\ \/ log[i].op \in {"merge", "commit"} /\ oid = base_commit.oid
     \/ /\ log[i].op = "checkout" /\ log[i].arg = oid
        /\ log[i - 1].op = "commit-tree" /\ log[i - 1].ok

\* C14: the commit id is printed only after integrate succeeded; when
\* integrate fails nothing is printed, the original checkout is not restored
\* and nothing is pushed; a push is run only with --push, right after the
\* original checkout was restored, and pushes
\* remote_commit:refs/heads/target_branch to the remote, with --dry-run when
\* set.
C14_Ordering ==
  /\ \A i \in Printed :
       /\ log[i].arg = remote_commit
       /\ EndsIntegrate(i - 1, remote_commit)
       /\ Printed = {i}
  /\ \A i \in 1..Len(log) :
       (log[i].op = "checkout" /\ log[i].arg = original_head) => (i - 1) \in Printed
  /\ (pc = "failed" /\ Printed = {}) =>
       /\ Pushed = {}
       /\ (Len(log) > 0 /\ log[1].ok) => HEAD # original_head
  /\ \A j \in Pushed :
       /\ args.push
       /\ j = Len(log)
       /\ j >= 3
       /\ log[j - 1] = [op |-> "checkout", arg |-> original_head, ok |-> TRUE]
       /\ (j - 2) \in Printed
       /\ HEAD = original_head
       /\ log[j].arg = remote_commit \o ":refs/heads/" \o target_branch
       /\ log[j].remote = args.remote
       /\ log[j].dry_run = args.dry_run
  /\ pc = "done" => (args.push <=> Pushed # {})

\* C14 witness: printed, restored, pushed with --dry-run.
C14_Witness ==
  /\ pc = "done"
  /\ Len(log) >= 3
  /\ log[Len(log) - 2] = [op |-> "print", arg |-> remote_commit, ok |-> TRUE]
  /\ log[Len(log) - 1] = [op |-> "checkout", arg |-> original_head, ok |-> TRUE]
  /\ LastOp.op = "push" /\ LastOp.dry_run /\ LastOp.ok
  /\ LastOp.arg = remote_commit \o ":refs/heads/wchargin-foo"

\* Step 5 has read the post-merge HEAD of a run with --bump on an existing
\* target branch, and its tree is the source commit's.
BumpCase ==
  /\ args.bump
  /\ base_commit # NoCommit
  /\ TipAtStart(target_branch) # None
  /\ objects[base_commit.oid].tree = objects[source_commit.oid].tree

\* C15: with --bump, --allow-empty given or not, on an existing target branch
\* whose post-merge tree is the source tree, Step 5 does not return the base:
\* it creates a commit "[<branch>: bump ci]" whose parent is the post-merge
\* HEAD.
C15_Bump ==
  BumpCase =>
    /\ msg = C5_Text("bump ci]")
    /\ pc \notin {"step5"}
    /\ HasOp("commit-tree") \/ pc = "create"
    /\ IntegrateOk =>
         /\ remote_commit # base_commit.oid
         /\ remote_commit \notin start.objects
         /\ objects[remote_commit].parents = <<base_commit.oid>>
         /\ objects[remote_commit].tree = objects[source_commit.oid].tree
         /\ ~HasFailed("interpret-trailers") =>
              objects[remote_commit].message =
                Message("[" \o C5_Branch \o ": bump ci]\n",
                        <<"wchargin-branch: " \o C5_Branch,
                          "wchargin-source: " \o source_commit.oid>>)

\* C15 witness: --bump without --allow-empty, returned.
C15_Witness ==
  /\ BumpCase
  /\ ~args.allow_empty
  /\ pc = "return"
  /\ objects[remote_commit].message.body = "[foo: bump ci]\n"
  /\ objects[remote_commit].parents = <<base_commit.oid>>

\* The commands of integrate whose failure is to abort it.
FatalOps == {"checkout", "add", "commit", "interpret-trailers", "commit-tree"}

\* C16: a failure of any backend command of integrate but the merge makes
\* integrate return an error: nothing but the commit-tree already spawned on
\* the rewrite's output runs after it, and no result is produced.
C16_Original ==
  \A i \in 1..Len(log) :
    (log[i].op \in FatalOps /\ ~log[i].ok /\ \A p \in Printed : i < p) =>
      /\ pc = "failed"
      /\ Printed = {}
      /\ \A j \in (i + 1)..Len(log) :
           log[i].op = "interpret-trailers" /\ log[j].op = "commit-tree"

\* The pipeline has finished: both children exited, the id was read.
PipeFinished ==
  /\ io.parent = "parse_oid"
  /\ io.it = "exited" /\ io.ct = "exited"
  /\ io.got = OidBytes

\* C17: the pipeline never deadlocks: as long as the new id has not been
\* read, the parent or one of the two children can take a step; and when the
\* parent is done both children have exited and the whole id was read.
C17_Original ==
  /\ io.parent # "parse_oid" => ENABLED NextPipe
  /\ io.parent = "parse_oid" => PipeFinished

\* Every cache entry is keyed by its own id and is the commit of that id.
CacheMatchesStore ==
  \A k \in DOMAIN commits :
    k \in DOMAIN objects /\ commits[k] = Commit(k, objects[k])

\* No commit() call panicked (assert_eq, expect).
NoPanic == \A i \in 1..Len(log) : log[i].res.err.kind # "Panic"

\* C18: over any sequence of commit() calls with ids and aliases, a freshly
\* read commit whose id is already a cache key equals the cached record (the
\* assert_eq does not fail), every id maps to the one record of that commit,
\* and a cached record never changes.
C18_CacheConsistent ==
  /\ [](CacheMatchesStore /\ NoPanic)
  /\ [][\A k \in DOMAIN commits : k \in DOMAIN commits' /\ commits'[k] = commits[k]]_vars

\* C18 witness: a call through the alias HEAD read a commit afresh whose id
\* was already a cache key, the cache holding other commits too.
C18_Witness ==
  /\ Len(log) = 1
  /\ log[1].arg = "HEAD"
  /\ log[1].res.ok
  /\ log[1].res.val.oid \in log[1].before
  /\ Cardinality(log[1].before) >= 2
  /\ log[1].res.val = commits[log[1].res.val.oid]
  /\ log[1].res.val.oid \in created

\* integrate has got past Step 1 or failed, for a source commit with no parent.
RootCase ==
  /\ source_commit # NoCommit
  /\ pc \notin {"start", "step0", "step1"}
  /\ objects[source_commit.oid].parents = <<>>

\* C19 as stated: a root source commit makes integrate fail with
\* NoSuchCommit, before any checkout, merge or commit.
C19_Original ==
  RootCase => (pc = "failed" /\ error.kind = "NoSuchCommit" /\ Untouched)

\* C19, amended: so does a root source commit that carries exactly one
\* branch trailer; the revision named is the source's first parent.
C19_RootCommit ==
  (RootCase /\ Len(BranchValues(objects[source_commit.oid].message)) = 1) =>
    /\ pc = "failed"
    /\ error = [kind |-> "NoSuchCommit", oid |-> source_commit.oid \o "~^{commit}",
                key |-> ""]
    /\ target_branch = BranchOf(objects[source_commit.oid].message)
    /\ remote_diffbase = None
    /\ Untouched

\* C19 witness: the root commit c1 with "wchargin-branch: root".
C19_Witness ==
  /\ pc = "failed"
  /\ source_commit.oid = "c1"
  /\ source_commit.parents = <<>>
  /\ target_branch = "wchargin-root"
  /\ error.kind = "NoSuchCommit"
  /\ error.oid = "c1~^{commit}"

StartsWith(text, prefix) ==
  Len(text) >= Len(prefix) /\ SubSeq(text, 1, Len(prefix)) = prefix

\* The merge commits Step 4 created in this run.
MergeCommits == {o \in created : Len(objects[o].parents) = 2}

\* The generated messages of this run name `name` as their <branch>:
\* Step 4's merge commits and the message Step 5 generated.
MessagesName(name) ==
  /\ \A o \in MergeCommits :
       objects[o].message.body = "[" \o name \o ": update diffbase]\n"
  /\ (msg # NoMessage /\ ~new_branch) => StartsWith(msg.body, "[" \o name \o ": ")

\* C20 as stated: the <branch> of the generated messages is the target
\* branch of Step 0, prefix + trailer value, the string returned as
\* target_branch.
C20_Original ==
  target_branch # None =>
    /\ target_branch = BranchOf(objects[source_commit.oid].message)
    /\ MessagesName(target_branch)

\* C20, amended: the <branch> of the generated messages is the value of the
\* source commit's branch trailer, i.e. the target branch without its prefix;
\* target_branch is prefix + that value.
C20_Label ==
  target_branch # None =>
    /\ target_branch = BranchOf(objects[source_commit.oid].message)
    /\ "wchargin-" \o C5_Branch = target_branch
    /\ MessagesName(C5_Branch)

\* C20 witness: a merge commit "[foo: update diffbase]" and a patch message
\* "[foo: update patch]" for the target branch wchargin-foo.
C20_Witness ==
  /\ pc = "return"
  /\ target_branch = "wchargin-foo"
  /\ \E o \in MergeCommits : objects[o].message.body = "[foo: update diffbase]\n"
  /\ msg.body = "[foo: update patch]\n"
  /\ objects[remote_commit].message.body = "[foo: update patch]\n"

(***************************************************************************)
(* C21: the branch trailer of the commits integrate creates.               *)
(***************************************************************************)
\* Step 0's rule applied to a commit of the store.
RoundTrip(oid) == branch_name(oid, objects[oid].message)

\* C21: every commit integrate has created, the Step 4 merge commit and the
\* Step 5 patch commit, carries the branch trailer with the unprefixed value
\* of the source commit, so that Step 0's rule (prefix + trailer value)
\* applied to the created commit yields the target_branch it was created
\* for.
C21_Original ==
  \A o \in created :
    /\ BranchValues(objects[o].message) = <<unprefixed(target_branch)>>
    /\ RoundTrip(o) = Ok(target_branch)

(***************************************************************************)
(* C22: the keys of the commit cache.                                      *)
(***************************************************************************)
\* Every key of the cache is the id of its entry, an id of the store.
KeysCanonical ==
  \A k \in DOMAIN commits : commits[k].oid = k /\ k \in DOMAIN objects

\* Step 5's git.commit("HEAD") answers with the commit checked out at that
\* moment.
BaseIsCheckedOut ==
  (pc = "step5" /\ pc' \in {"create", "return"}) =>
    base_commit' = Commit(HEAD, objects[HEAD])

\* C22: in every reachable state each key of the commit cache equals the oid
\* field of its entry, and a reference such as HEAD is never a key; so
\* commit("HEAD") is not answered from the cache: after Steps 3-4 have moved
\* the checkout, Step 5's commit("HEAD") returns the commit HEAD names at
\* that moment, even if commit("HEAD") was called before for the source
\* commit.
C22_NoStaleAlias ==
  /\ [](KeysCanonical /\ "HEAD" \notin DOMAIN commits)
  /\ [][BaseIsCheckedOut]_vars

\* C22 witness: the source commit was read through HEAD, the checkout has
\* moved to another commit since, and Step 5 has read that one through HEAD.
C22_Witness ==
  /\ args.commit = "HEAD"
  /\ pc = "create"
  /\ source_commit.oid = "c3"
  /\ HEAD # "c3"
  /\ base_commit.oid = HEAD
  /\ {"c3", HEAD} \subseteq DOMAIN commits
=============================================================================
